---- MODULE Spec2Model ----
(***************************************************************************)
(* Gemini-OCR: the batch driver of main.py and the helpers of ocr_utils.py *)
(* (convert_pdf_to_images, batch_images, ocr_with_gemini,                  *)
(* process_large_pdf, harmonize_document) as a state machine.              *)
(*                                                                         *)
(* Three specifications share the module:                                  *)
(*   Spec / FairSpec  the driver: main() run over an input directory,      *)
(*                    possibly several times over the same directories;    *)
(*   SpecBatch        batch_images applied to arbitrary sequences/sizes;   *)
(*   SpecOcr          ocr_with_gemini applied to batches that may hold     *)
(*                    undecodable image files.                             *)
(*                                                                         *)
(* Texts are sequences of tokens.  The literal                             *)
(* "\n\n--- END OF BATCH i ---\n\n" is the token Marker(i); a piece of     *)
(* text produced by the remote service is a token Text(k).                 *)
(***************************************************************************)
EXTENDS Integers, Sequences, FiniteSets, TLC

\* ---------------------------------------------------------------- bounds
MaxDocs      == 2   \* entries in the input directory
MaxBatches   == 2   \* batches of one document
MaxRuns      == 2   \* invocations of main() over the same directories
MaxItems     == 5   \* SpecBatch: length of the sequence handed to batch_images
MaxBatchSize == 3   \* SpecBatch: batch_size handed to batch_images
MaxImages    == 3   \* SpecOcr: images handed to ocr_with_gemini

\* process_large_pdf: batch_images(image_paths, 25)
BatchSize == 25

\* ---------------------------------------------------------------- values
Marker(i) == [kind |-> "END OF BATCH", n |-> i]
Text(k)   == [kind |-> "text", n |-> k]

Generated(k) == [kind |-> "generated", n |-> k]

\* What the remote service answers to an OCR request that it accepts: a text
\* that identifies the batch it was sent (its first page).
Transcribe(images) == IF images = <<>> THEN <<>> ELSE <<Text(Head(images))>>

\* What the remote service answers to a harmonize request that it accepts: the
\* request is all it sees, so the answer is a function of the request.
HarmonizeReply(request) == <<Generated(1), Generated(2)>> \o request.payload

\* Names an input directory may hold, as (stem, extension).
FileNames ==
    { [base |-> "a", ext |-> ".pdf"], [base |-> "a", ext |-> ".PDF"],
      [base |-> "b", ext |-> ".pdf"], [base |-> "readme", ext |-> ".md"] }

\* str.lower() on the extensions above
Lower(ext) == IF ext = ".PDF" THEN ".pdf" ELSE ext

\* main: f.lower().endswith('.pdf')
IsPdf(f) == Lower(f.ext) = ".pdf"

\* main: os.path.join(final_output_folder, splitext(pdf_name)[0] + ".txt"),
\* identified by the stem.
final_output_path(f) == f.base

NoFile  == [exists |-> FALSE, text |-> <<>>]
OldFile == [exists |-> TRUE,  text |-> <<[kind |-> "old", n |-> 0]>>]
WrittenFile(t) == [exists |-> TRUE, text |-> t]

\* Page counts a rasterized PDF may have: around every batch boundary.
PageCounts ==
    { k * BatchSize + r : k \in 0..(MaxBatches - 1), r \in {0, 1} }
        \cup { MaxBatches * BatchSize }

Min(a, b) == IF a < b THEN a ELSE b

RECURSIVE Concat(_)
Concat(ss) == IF ss = <<>> THEN <<>> ELSE Head(ss) \o Concat(Tail(ss))

SeqsUpTo(S, n) == UNION { [1..k -> S] : k \in 0..n }

DistinctSeqs(S, n) ==
    { s \in SeqsUpTo(S, n) : \A i, j \in 1..Len(s) : i # j => s[i] # s[j] }

RECURSIVE SelectPdf(_)
SelectPdf(names) ==
    IF names = <<>> THEN <<>>
    ELSE (IF IsPdf(Head(names)) THEN <<Head(names)>> ELSE <<>>)
             \o SelectPdf(Tail(names))

\* ------------------------------------------------------------ batch_images
\* Python slice s[lo:hi] (0-based, hi clipped to len(s)).
Slice(s, lo, hi) == SubSeq(s, lo + 1, Min(hi, Len(s)))

\* for i in range(start, len(image_paths), batch_size): yield image_paths[i:i+batch_size]
RECURSIVE BatchesFrom(_, _, _)
BatchesFrom(paths, size, i) ==
    IF i >= Len(paths) THEN <<>>
    ELSE <<Slice(paths, i, i + size)>> \o BatchesFrom(paths, size, i + size)

BatchSliceShort(paths, size, i) ==
    IF i >= Len(paths) THEN <<>>
    ELSE <<Slice(paths, i, i + size - 1)>> \o BatchesFrom(paths, size, i + size)

batch_images_dropping(image_paths, batch_size) ==
    BatchSliceShort(image_paths, batch_size, 0)

batch_images(image_paths, batch_size) == BatchesFrom(image_paths, batch_size, 0)


\* --------------------------------------------------------- remote service
\* model.generate_content(...) followed by response.text ends in one of: the
\* text ("ok"), a ValueError (response.text with no valid part: the content was
\* rejected), or any other exception.  Without a credential every request is
\* refused by the service.
ServiceOutcomes(hasKey) ==
    IF hasKey THEN {"ok", "ValueError", "Exception"} ELSE {"Exception"}

\* ---------------------------------------------------------- ocr_with_gemini
\* images = [Image.open(path) for path in image_paths]: the first undecodable
\* file raises and no request is made; otherwise content = [prompt, *images]
\* is sent and response.text returned.
ocr_with_gemini(image_paths, undecodable, outcome) ==
    IF \E k \in 1..Len(image_paths) : image_paths[k] \in undecodable
    THEN [kind |-> "Exception", text |-> <<>>, sent |-> <<>>, called |-> FALSE]
    ELSE [kind |-> outcome,
          text |-> IF outcome = "ok" THEN Transcribe(image_paths) ELSE <<>>,
          sent |-> image_paths, called |-> TRUE]

\* ocr_complex_document: ocr_with_gemini with the complex-layout instruction
ocr_complex_document(image_paths, undecodable, outcome) ==
    ocr_with_gemini(image_paths, undecodable, outcome)

\* ------------------------------------------------------- harmonize_document
\* The request harmonize_document(extracted_text) sends: the prompt f-string
\* holds the instructions and no placeholder for extracted_text.
harmonize_prompt(extracted_text) ==
    [instruction |-> "harmonize", payload |-> <<>>]

\* ------------------------------------------------------------------ state
VARIABLES
    apiKey,               \* GOOGLE_API_KEY is set in the environment
    dirEntries,           \* os.listdir(pdf_input_folder)
    files,                \* the output directory: stem -> file
    run,                  \* which invocation of main() this is
    pc,                   \* position in main() / process_large_pdf
    pdf_files,            \* main: the filtered listing
    idx,                  \* main: 1-based position of the loop in pdf_files
    status,               \* per document: the status line the driver printed
    visits,               \* per document: times the loop body was entered
    tmpDir,               \* per document: its temporary directory exists
    pageImages,           \* per document: page image files in its directory
    image_paths,          \* process_large_pdf: the rasterized pages
    image_batches,        \* process_large_pdf: list(batch_images(image_paths, 25))
    batchNo,              \* process_large_pdf: batches already OCRed (enumerate's i)
    full_extracted_text,  \* process_large_pdf: the accumulator
    harmonized_text,      \* main: harmonize_document's result
    exc,                  \* the exception in flight ("none" when there is none)
    hist,                 \* what happened to the current document (bookkeeping)
    prevStatus,           \* per document: its status at the end of the previous run
    filesAtStart,         \* the output directory when this run started
    seqIn, sizeIn, batchesOut, batchPc,   \* SpecBatch
    ocrIn, ocrBad, ocrOut, ocrPc          \* SpecOcr

drvVars == << apiKey, dirEntries, files, run, pc, pdf_files, idx, status, visits,
              tmpDir, pageImages, image_paths, image_batches, batchNo,
              full_extracted_text, harmonized_text, exc, hist, prevStatus,
              filesAtStart >>
batchVars == << seqIn, sizeIn, batchesOut, batchPc >>
ocrVars   == << ocrIn, ocrBad, ocrOut, ocrPc >>
vars      == << drvVars, batchVars, ocrVars >>

NoHist ==
    [ rasterCalls |-> 0, ocrCalls |-> 0, harmonizeCalls |-> 0,
      replies |-> <<>>, failedBatch |-> 0, raised |-> "none", caught |-> "none",
      request |-> [instruction |-> "none", payload |-> <<>>], rawText |-> <<>>,
      write |-> "none", returned |-> FALSE, sent |-> <<>> ]

Docs == 1..Len(pdf_files)

OutBases == { final_output_path(f) : f \in {g \in FileNames : IsPdf(g)} }

\* ------------------------------------------------------ process_large_pdf
\* full_extracted_text += f"\n\n--- END OF BATCH {i + 1} ---\n\n{batch_text}"
AppendBatchZeroBased(acc, i, batch_text) == acc \o <<Marker(i)>> \o batch_text

AppendBatch(acc, i, batch_text) == acc \o <<Marker(i + 1)>> \o batch_text

\* except Exception as e: ...; raise  -- the batch's error leaves
\* process_large_pdf as it is.
SwallowBatchError(kind) == [propagate |-> FALSE, kind |-> "none"]

OnBatchError(kind) == [propagate |-> TRUE, kind |-> kind]

\* ------------------------------------------------------------------- main
\* with tempfile.TemporaryDirectory() as temp_images_dir: the directory is
\* removed when the block is left, by return or by exception; removing a
\* directory that process_large_pdf already removed is not an error.
CleanupOnlyWithoutError(e, exists) == [removes |-> e = "none", raises |-> FALSE]

TemporaryDirectoryExit(e, exists) == [removes |-> TRUE, raises |-> FALSE]

\* except ValueError / except Exception: the status line printed for an
\* exception, "uncaught" when no handler takes it.
HandlerValueErrorOnly(e) ==
    CASE e = "ValueError" -> "FailedContentRejected"
      [] OTHER            -> "uncaught"

Handler(e) ==
    CASE e = "ValueError" -> "FailedContentRejected"
      [] e = "Exception"  -> "FailedError"
      [] OTHER            -> "uncaught"

\* if os.path.exists(final_output_path): ...; continue
NeverSkips(path) == FALSE

OutputExists(path) == files[path].exists

Failed == {"FailedContentRejected", "FailedError"}
Final  == {"Succeeded", "Skipped"} \cup Failed

\* --------------------------------------------------------------- Init
DrvInit ==
    /\ apiKey \in BOOLEAN
    /\ dirEntries \in DistinctSeqs(FileNames, MaxDocs)
    /\ files \in [OutBases -> {NoFile, OldFile}]
    /\ run = 1
    /\ pc = "import"
    /\ pdf_files = <<>>
    /\ idx = 0
    /\ status = <<>>
    /\ visits = <<>>
    /\ tmpDir = <<>>
    /\ pageImages = <<>>
    /\ image_paths = <<>>
    /\ image_batches = <<>>
    /\ batchNo = 0
    /\ full_extracted_text = <<>>
    /\ harmonized_text = <<>>
    /\ exc = "none"
    /\ hist = NoHist
    /\ prevStatus = <<>>
    /\ filesAtStart = files

BatchIdle ==
    /\ seqIn = <<>>
    /\ sizeIn = 1
    /\ batchesOut = <<>>
    /\ batchPc = "idle"
OcrIdle ==
    /\ ocrIn = <<>>
    /\ ocrBad = {}
    /\ ocrOut = [kind |-> "none", text |-> <<>>, sent |-> <<>>, called |-> FALSE]
    /\ ocrPc = "idle"

Init == DrvInit /\ BatchIdle /\ OcrIdle

\* ------------------------------------------------------------ the driver
\* ocr_utils module initialization: load_dotenv(); api_key = os.getenv(...);
\* genai.configure(api_key=api_key); model = genai.GenerativeModel(...).
\* Nothing here looks at whether the key is set.
ModuleInit ==
    /\ pc = "import"
    /\ pc' = "main"
    /\ UNCHANGED << apiKey, dirEntries, files, run, pdf_files, idx, status, visits,
                    tmpDir, pageImages, image_paths, image_batches, batchNo,
                    full_extracted_text, harmonized_text, exc, hist, prevStatus,
                    filesAtStart,
                    batchVars, ocrVars >>

\* main: makedirs, the listing and its filter, the early return on no PDF.
ListPdfs ==
    /\ pc = "main"
    /\ pdf_files' = SelectPdf(dirEntries)
    /\ status' = [i \in 1..Len(pdf_files') |-> "Pending"]
    /\ visits' = [i \in 1..Len(pdf_files') |-> 0]
    /\ tmpDir' = [i \in 1..Len(pdf_files') |-> FALSE]
    /\ pageImages' = [i \in 1..Len(pdf_files') |-> 0]
    /\ idx' = 0
    /\ pc' = IF pdf_files' = <<>> THEN "done" ELSE "loop"
    /\ UNCHANGED << apiKey, dirEntries, files, run, image_paths, image_batches,
                    batchNo, full_extracted_text, harmonized_text, exc, hist,
                    prevStatus, filesAtStart,
                    batchVars, ocrVars >>

\* main: the head of the for loop, the skip test, the entry of the with block.
NextDocument ==
    /\ pc = "loop"
    /\ idx < Len(pdf_files)
    /\ LET i == idx + 1
           path == final_output_path(pdf_files[i])
       IN  /\ idx' = i
           /\ visits' = [visits EXCEPT ![i] = @ + 1]
           /\ IF OutputExists(path)
              THEN /\ status' = [status EXCEPT ![i] = "Skipped"]
                   /\ pc' = "loop"
                   /\ UNCHANGED tmpDir
              ELSE /\ status' = [status EXCEPT ![i] = "Processing"]
                   /\ pc' = "convert"
                   /\ tmpDir' = [tmpDir EXCEPT ![i] = TRUE]
    /\ image_paths' = <<>>
    /\ image_batches' = <<>>
    /\ batchNo' = 0
    /\ full_extracted_text' = <<>>
    /\ harmonized_text' = <<>>
    /\ exc' = "none"
    /\ hist' = NoHist
    /\ UNCHANGED << apiKey, dirEntries, files, run, pdf_files, pageImages,
                    prevStatus, filesAtStart,
                    batchVars, ocrVars >>

\* main: the loop is exhausted; the closing messages.
LoopExit ==
    /\ pc = "loop"
    /\ idx = Len(pdf_files)
    /\ pc' = "done"
    /\ UNCHANGED << apiKey, dirEntries, files, run, pdf_files, idx, status, visits,
                    tmpDir, pageImages, image_paths, image_batches, batchNo,
                    full_extracted_text, harmonized_text, exc, hist, prevStatus,
                    filesAtStart,
                    batchVars, ocrVars >>

\* process_large_pdf steps 1 and 2: convert_pdf_to_images saves page_1.jpg ..
\* page_n.jpg and returns their paths, or raises (convert_from_path, or
\* image.save after some pages were saved); then the batches are listed.
ConvertPdfToImages ==
    /\ pc = "convert"
    /\ hist' = [hist EXCEPT !.rasterCalls = @ + 1]
    /\ \E n \in PageCounts, ok \in BOOLEAN :
          IF ok
          THEN /\ pageImages' = [pageImages EXCEPT ![idx] = n]
               /\ image_paths' = [k \in 1..n |-> k]
               /\ image_batches' = batch_images(image_paths', BatchSize)
               /\ exc' = "none"
               /\ pc' = "ocr"
          ELSE /\ pageImages' = [pageImages EXCEPT ![idx] = n]
               /\ exc' = "Exception"
               /\ pc' = "exit"
               /\ UNCHANGED << image_paths, image_batches >>
    /\ batchNo' = 0
    /\ full_extracted_text' = <<>>
    /\ UNCHANGED << apiKey, dirEntries, files, run, pdf_files, idx, status, visits,
                    tmpDir, harmonized_text, prevStatus, filesAtStart,
                    batchVars, ocrVars >>

\* process_large_pdf: one turn of "for i, batch in enumerate(image_batches)".
OcrBatch ==
    /\ pc = "ocr"
    /\ batchNo < Len(image_batches)
    /\ \E outcome \in ServiceOutcomes(apiKey) :
          LET r == ocr_complex_document(image_batches[batchNo + 1], {}, outcome)
              h == [hist EXCEPT !.ocrCalls = @ + 1,
                                !.sent = Append(@, r.sent)]
          IN  IF r.kind = "ok"
              THEN /\ full_extracted_text' =
                          AppendBatch(full_extracted_text, batchNo, r.text)
                   /\ hist' = [h EXCEPT !.replies = Append(@, r.text)]
                   /\ UNCHANGED << exc, pc >>
              ELSE LET e == OnBatchError(r.kind)
                   IN  /\ hist' = [h EXCEPT !.failedBatch = batchNo + 1,
                                            !.raised = r.kind]
                       /\ exc' = e.kind
                       /\ pc' = IF e.propagate THEN "exit" ELSE "ocr"
                       /\ UNCHANGED full_extracted_text
    /\ batchNo' = batchNo + 1
    /\ UNCHANGED << apiKey, dirEntries, files, run, pdf_files, idx, status, visits,
                    tmpDir, pageImages, image_paths, image_batches,
                    harmonized_text, prevStatus, filesAtStart,
                    batchVars, ocrVars >>

\* process_large_pdf step 3: every batch is done; the image folder is removed
\* (if it exists) and full_extracted_text returned to main.
AssemblerCleanup ==
    /\ pc = "ocr"
    /\ batchNo = Len(image_batches)
    /\ tmpDir' = [tmpDir EXCEPT ![idx] = FALSE]
    /\ pageImages' = IF tmpDir[idx] THEN [pageImages EXCEPT ![idx] = 0]
                     ELSE pageImages
    /\ hist' = [hist EXCEPT !.rawText = full_extracted_text, !.returned = TRUE]
    /\ pc' = "harmonize"
    /\ UNCHANGED << apiKey, dirEntries, files, run, pdf_files, idx, status, visits,
                    image_paths, image_batches, batchNo, full_extracted_text,
                    harmonized_text, exc, prevStatus, filesAtStart,
                    batchVars, ocrVars >>

\* main step 2: harmonized_text = harmonize_document(raw_extracted_text).
HarmonizeDocument ==
    /\ pc = "harmonize"
    /\ \E outcome \in ServiceOutcomes(apiKey) :
          /\ hist' = [hist EXCEPT !.harmonizeCalls = @ + 1,
                                  !.request = harmonize_prompt(full_extracted_text)]
          /\ IF outcome = "ok"
             THEN /\ harmonized_text' = HarmonizeReply(hist'.request)
                  /\ pc' = "write"
                  /\ UNCHANGED exc
             ELSE /\ exc' = outcome
                  /\ pc' = "exit"
                  /\ UNCHANGED harmonized_text
    /\ UNCHANGED << apiKey, dirEntries, files, run, pdf_files, idx, status, visits,
                    tmpDir, pageImages, image_paths, image_batches, batchNo,
                    full_extracted_text, prevStatus, filesAtStart,
                    batchVars, ocrVars >>

\* main step 3: open(final_output_path, 'w') creates or truncates the file, then
\* f.write(harmonized_text), the close, and the SUCCESS line.  open may fail
\* (nothing is created); the write or the flush may fail after open created
\* the file, leaving a proper prefix of the text.
WriteOutput ==
    /\ pc = "write"
    /\ LET path == final_output_path(pdf_files[idx])
       IN  \/ /\ files' = [files EXCEPT ![path] = WrittenFile(harmonized_text)]
              /\ status' = [status EXCEPT ![idx] = "Succeeded"]
              /\ hist' = [hist EXCEPT !.write = "ok"]
              /\ UNCHANGED exc
           \/ /\ exc' = "Exception"
              /\ hist' = [hist EXCEPT !.write = "open failed"]
              /\ UNCHANGED << files, status >>
           \/ /\ \E k \in 0..(Len(harmonized_text) - 1) :
                    files' = [files EXCEPT
                                 ![path] = WrittenFile(SubSeq(harmonized_text, 1, k))]
              /\ exc' = "Exception"
              /\ hist' = [hist EXCEPT !.write = "write failed"]
              /\ UNCHANGED status
    /\ pc' = "exit"
    /\ UNCHANGED << apiKey, dirEntries, run, pdf_files, idx, visits, tmpDir,
                    pageImages, image_paths, image_batches, batchNo,
                    full_extracted_text, harmonized_text, prevStatus,
                    filesAtStart,
                    batchVars, ocrVars >>

\* main: the with block is left (TemporaryDirectory.__exit__), then the except
\* clause that matches the exception in flight, then the next iteration.
ExitWith ==
    /\ pc = "exit"
    /\ LET x == TemporaryDirectoryExit(exc, tmpDir[idx])
           e == IF x.raises THEN "Exception" ELSE exc
       IN  /\ tmpDir' = IF x.removes THEN [tmpDir EXCEPT ![idx] = FALSE] ELSE tmpDir
           /\ pageImages' = IF x.removes THEN [pageImages EXCEPT ![idx] = 0]
                            ELSE pageImages
           /\ hist' = [hist EXCEPT !.caught = e, !.replies = <<>>, !.sent = <<>>,
                                   !.rawText = <<>>, !.request = NoHist.request]
           /\ IF e = "none"
              THEN /\ pc' = "loop"
                   /\ UNCHANGED status
              ELSE IF Handler(e) = "uncaught"
              THEN /\ pc' = "crashed"
                   /\ UNCHANGED status
              ELSE /\ pc' = "loop"
                   /\ status' = [status EXCEPT ![idx] = Handler(e)]
    /\ exc' = "none"
    \* the locals of the iteration are dead from here on
    /\ image_paths' = <<>>
    /\ image_batches' = <<>>
    /\ batchNo' = 0
    /\ full_extracted_text' = <<>>
    /\ harmonized_text' = <<>>
    /\ UNCHANGED << apiKey, dirEntries, files, run, pdf_files, idx, visits,
                    prevStatus, filesAtStart,
                    batchVars, ocrVars >>

\* The program is started again over the same input and output directories.
Rerun ==
    /\ pc = "done"
    /\ run < MaxRuns
    /\ run' = run + 1
    /\ pc' = "import"
    /\ prevStatus' = status
    /\ filesAtStart' = files
    /\ pdf_files' = <<>>
    /\ idx' = 0
    /\ status' = <<>>
    /\ visits' = <<>>
    /\ tmpDir' = <<>>
    /\ pageImages' = <<>>
    /\ image_paths' = <<>>
    /\ image_batches' = <<>>
    /\ batchNo' = 0
    /\ full_extracted_text' = <<>>
    /\ harmonized_text' = <<>>
    /\ exc' = "none"
    /\ hist' = NoHist
    /\ UNCHANGED << apiKey, dirEntries, files,
                    batchVars, ocrVars >>

RunStep ==
    \/ ModuleInit
    \/ ListPdfs
    \/ NextDocument
    \/ LoopExit
    \/ ConvertPdfToImages
    \/ OcrBatch
    \/ AssemblerCleanup
    \/ HarmonizeDocument
    \/ WriteOutput
    \/ ExitWith

Next == RunStep \/ Rerun

Spec == Init /\ [][Next]_vars

\* main() is sequential code that always takes its next step; nothing obliges
\* anyone to start the program again.
FairSpec == Spec /\ WF_vars(RunStep)

\* ------------------------------------------------------------ SpecBatch
\* batch_images on its own: any sequence of up to MaxItems items (repeats
\* allowed) and any batch size 1..MaxBatchSize.
DrvIdle ==
    /\ apiKey = TRUE
    /\ dirEntries = <<>>
    /\ files = [b \in OutBases |-> NoFile]
    /\ run = 1
    /\ pc = "idle"
    /\ pdf_files = <<>>
    /\ idx = 0
    /\ status = <<>>
    /\ visits = <<>>
    /\ tmpDir = <<>>
    /\ pageImages = <<>>
    /\ image_paths = <<>>
    /\ image_batches = <<>>
    /\ batchNo = 0
    /\ full_extracted_text = <<>>
    /\ harmonized_text = <<>>
    /\ exc = "none"
    /\ hist = NoHist
    /\ prevStatus = <<>>
    /\ filesAtStart = files

BatchInit ==
    /\ DrvIdle
    /\ OcrIdle
    /\ seqIn \in SeqsUpTo({"x", "y"}, MaxItems)
    /\ sizeIn \in 1..MaxBatchSize
    /\ batchesOut = <<>>
    /\ batchPc = "call"

\* list(batch_images(image_paths, batch_size))
BatchImages ==
    /\ batchPc = "call"
    /\ batchesOut' = batch_images(seqIn, sizeIn)
    /\ batchPc' = "done"
    /\ UNCHANGED << seqIn, sizeIn, drvVars, ocrVars >>

BatchNext == BatchImages

SpecBatch == BatchInit /\ [][BatchNext]_vars

\* -------------------------------------------------------------- SpecOcr
\* ocr_with_gemini on its own: a batch of up to MaxImages distinct image files,
\* any of which may be undecodable.
ImageIds == 1..MaxImages

NoOcrResult == [kind |-> "none", text |-> <<>>, sent |-> <<>>, called |-> FALSE]

OcrInit ==
    /\ DrvIdle
    /\ BatchIdle
    /\ ocrIn \in DistinctSeqs(ImageIds, MaxImages)
    /\ ocrBad \in SUBSET ImageIds
    /\ ocrOut = NoOcrResult
    /\ ocrPc = "call"

\* ocr_with_gemini(image_paths, instruction)
OcrWithGemini ==
    /\ ocrPc = "call"
    /\ \E outcome \in ServiceOutcomes(apiKey) :
          ocrOut' = ocr_with_gemini(ocrIn, ocrBad, outcome)
    /\ ocrPc' = "done"
    /\ UNCHANGED << ocrIn, ocrBad, drvVars, batchVars >>

OcrNext == OcrWithGemini

SpecOcr == OcrInit /\ [][OcrNext]_vars

\* ================================================================ claims
PathOf(i) == final_output_path(pdf_files[i])

NoCallsYet ==
    hist.rasterCalls = 0 /\ hist.ocrCalls = 0 /\ hist.harmonizeCalls = 0

\* C1: in every run the driver loop enters every document of the listing
\* exactly once, whatever happens to the documents before it; when the run is
\* over every document is Succeeded, Skipped or Failed; no error leaves main();
\* and every run that starts reaches its end.
C1_EveryDocumentSettled ==
    /\ [](\A i \in Docs : visits[i] <= 1)
    /\ [](pc = "done" => \A i \in Docs : visits[i] = 1 /\ status[i] \in Final)
    /\ [](pc # "crashed")
    /\ (pc = "import") ~> (pc = "done")

\* A run is over in which a document failed and a later one was still
\* processed to success.
C1_Witness ==
    /\ pc = "done"
    /\ \E i, j \in Docs : i < j /\ status[i] \in Failed /\ status[j] = "Succeeded"

\* C2 (as claimed): a document that ended Failed has no output file at its
\* target path.
C2_FailedLeavesNoOutput ==
    \A i \in Docs : status[i] \in Failed => ~files[PathOf(i)].exists

\* C3: a document whose output file exists when the loop reaches it becomes
\* Skipped in that very step, which creates no temporary directory, makes no
\* call and leaves the output directory as it is; a Skipped document has had no
\* rasterization, OCR or harmonize call, and a document that is being processed
\* has no output file yet; and in a later run over the same
\* directories every document that Succeeded in the run before is Skipped and
\* its output file is the one the run started with.
C3_ExistingOutputIsSkipped ==
    /\ [][ (pc = "loop" /\ idx < Len(pdf_files)
              /\ files[PathOf(idx + 1)].exists)
           => /\ idx' = idx + 1
              /\ status'[idx'] = "Skipped"
              /\ files' = files
              /\ tmpDir' = tmpDir
              /\ pageImages' = pageImages
              /\ hist' = NoHist
              /\ pc' = "loop" ]_vars
    /\ [](\A i \in Docs : (status[i] = "Skipped" /\ i = idx) => NoCallsYet)
    /\ [](pc \in {"convert", "ocr", "harmonize", "write"}
             => ~files[PathOf(idx)].exists)
    /\ [](\A i \in Docs :
             (run > 1 /\ i <= idx /\ prevStatus[i] = "Succeeded")
             => /\ status[i] = "Skipped"
                /\ files[PathOf(i)] = filesAtStart[PathOf(i)])

\* A second run has skipped a document that Succeeded in the first.
C3_Witness ==
    /\ run = 2
    /\ pc = "done"
    /\ \E i \in Docs : prevStatus[i] = "Succeeded" /\ status[i] = "Skipped"

\* The raw text the claim expects for the replies received so far.
Expected(replies) ==
    Concat([i \in 1..Len(replies) |-> <<Marker(i)>> \o replies[i]])

\* C4: while no batch has failed, the accumulator is the concatenation, in
\* ascending order, of Marker(i) followed by the i-th reply, and the batches
\* were sent in ascending order; what process_large_pdf returns over K batches
\* is that concatenation for i = 1..K after exactly K calls (the empty text
\* for K = 0).
C4_RawTextIsOrderedConcatenation ==
    /\ (pc = "ocr" /\ hist.failedBatch = 0)
          => /\ full_extracted_text = Expected(hist.replies)
             /\ Len(hist.replies) = batchNo
             /\ hist.sent = SubSeq(image_batches, 1, batchNo)
    /\ (pc \in {"harmonize", "write", "exit"} /\ hist.returned)
          => /\ hist.rawText = Expected(hist.replies)
             /\ Len(hist.replies) = Len(image_batches)
             /\ hist.ocrCalls = Len(image_batches)
             /\ hist.sent = image_batches
             /\ (image_batches = <<>> => hist.rawText = <<>>)

\* process_large_pdf has returned over two batches that got different texts.
C4_Witness ==
    /\ pc = "harmonize"
    /\ Len(hist.replies) = 2
    /\ hist.replies[1] # hist.replies[2]
    /\ hist.rawText = <<Marker(1)>> \o hist.replies[1] \o <<Marker(2)>> \o hist.replies[2]

CeilDiv(n, b) == (n + b - 1) \div b

\* C5: batch_images over N items with batch size B returns ceil(N/B)
\* contiguous slices, all of length B except possibly the last (N mod B, or B
\* when B divides N), whose concatenation in order is the input.
C5_BatchesPartitionInput ==
    batchPc = "done" =>
        LET N == Len(seqIn)
            B == sizeIn
            K == Len(batchesOut)
        IN  /\ K = CeilDiv(N, B)
            /\ \A k \in 1..K :
                  /\ k < K => Len(batchesOut[k]) = B
                  /\ k = K => Len(batchesOut[k]) = IF N % B = 0 THEN B ELSE N % B
                  /\ batchesOut[k] = SubSeq(seqIn, (k - 1) * B + 1, Min(k * B, N))
            /\ Concat(batchesOut) = seqIn

\* Five items in batches of two: three batches, the last one short.
C5_Witness ==
    /\ batchPc = "done"
    /\ Len(seqIn) = 5
    /\ sizeIn = 2
    /\ Len(batchesOut) = 3
    /\ Len(batchesOut[3]) = 1

\* C6: no temporary directory and no page image of a document exists once the
\* document is Succeeded or Failed, nor when the driver is between documents
\* or done, nor once process_large_pdf has returned; and a document whose
\* output was written stays Succeeded through the second removal of its
\* directory.
C6_WorkingDirectoryRemoved ==
    /\ \A i \in Docs :
          status[i] \in ({"Succeeded"} \cup Failed)
              => ~tmpDir[i] /\ pageImages[i] = 0
    /\ pc \in {"loop", "done"}
          => \A i \in Docs : ~tmpDir[i] /\ pageImages[i] = 0
    /\ pc \in {"harmonize", "write"} => ~tmpDir[idx] /\ pageImages[idx] = 0
    /\ (pc \in {"exit", "loop", "done"} /\ idx > 0 /\ hist.write = "ok")
          => status[idx] = "Succeeded"

\* A document succeeded (its directory removed twice) and the next one failed
\* at its second batch, with page images on disk when the error was raised.
C6_Witness ==
    /\ pc = "loop"
    /\ idx = 2
    /\ status[1] = "Succeeded"
    /\ status[2] \in Failed
    /\ hist.failedBatch = 2

\* C7 (as claimed): the request of a harmonize call holds the raw text
\* process_large_pdf returned for the document.
C7_RequestCarriesRawText ==
    (pc \in {"write", "exit"} /\ hist.harmonizeCalls > 0)
        => hist.request.payload = hist.rawText

\* C8: once the OCR call of batch n has failed, no further OCR call and no
\* harmonize call is made for the document and nothing is written; the error
\* in flight is the one the call raised, and it is the one the driver's
\* handlers see.
C8_BatchFailureAborts ==
    hist.failedBatch > 0 =>
        /\ hist.ocrCalls = hist.failedBatch
        /\ hist.harmonizeCalls = 0
        /\ hist.write = "none"
        /\ ~hist.returned
        /\ pc \in {"exit", "loop", "done"}
        /\ pc = "exit" => exc = hist.raised
        /\ pc \in {"loop", "done"}
              => /\ hist.caught = hist.raised
                 /\ hist.raised = "ValueError" => status[idx] = "FailedContentRejected"
                 /\ hist.raised = "Exception" => status[idx] = "FailedError"

\* The first of at least two batches failed: a later batch was left unsent.
C8_Witness ==
    /\ pc = "exit"
    /\ hist.failedBatch = 1
    /\ Len(image_batches) >= 2
    /\ exc = "ValueError"

\* C9 (as claimed): without the credential no document leaves Pending and no
\* rasterization or remote call is made.
C9_MissingCredentialIsFatal ==
    ~apiKey => /\ \A i \in Docs : status[i] = "Pending"
               /\ NoCallsYet

\* C10 (as claimed): a batch holding an undecodable image does not fail for
\* it: the decodable images are sent in their input order, and with none
\* left the call returns the empty text.
C10_UndecodableImagesSkipped ==
    LET valid == SelectSeq(ocrIn, LAMBDA p : p \notin ocrBad)
    IN  (ocrPc = "done" /\ valid # ocrIn)
            => IF valid = <<>>
               THEN ocrOut.kind = "ok" /\ ocrOut.text = <<>>
               ELSE ocrOut.called /\ ocrOut.sent = valid

====
